---- MODULE Spec2Model ----
(***************************************************************************)
(* A model of skbio/io/_registry.py: the process-wide registry of format   *)
(* identifiers, readers and writers, and the generic guess_format, read    *)
(* and write entry points that dispatch through it.                        *)
(*                                                                         *)
(* One action stands for one public call (or one pull on / disposal of a   *)
(* generator returned by a streaming read).  `last` records the call just  *)
(* made and its outcome, `calls` the registered functions it invoked, `fh` *)
(* the file object it worked on, `gen` the live wrapper_generator and      *)
(* `before` the registry as it was when the call was made.                 *)
(***************************************************************************)
EXTENDS Integers, Sequences, FiniteSets, TLC

VARIABLES _identifiers, _formats, last, calls, fh, gen, before

vars == <<_identifiers, _formats, last, calls, fh, gen, before>>

(***************************************************************************)
(* Bounds of the model.                                                    *)
(***************************************************************************)
\* successful registrations made in one run
MaxRegs == 3
\* elements a streaming reader yields before it stops or fails
MaxElems == 2
\* largest read offset of a file object
MaxPos == 1

(***************************************************************************)
(* The values the calls are made with.                                     *)
(***************************************************************************)
None == "None"
Formats == {"fasta", "fastq"}
\* owner types: a class, or None for the generator (streaming) binding
Classes == {None, "T"}
\* the classes of the objects handed to write
ObjClasses == {"T", "generator"}
Roles == {"reader", "writer"}
Versions == {"1", "2"}
\* the *cls varargs of register_reader, get_reader, ...
ClsArgs == {<<>>, <<"T">>, <<"T", "T">>}

\* The functions offered for registration, by identity.  They are named as
\* the docstrings name them, <format>_to_<class> and the like, in two
\* versions each: two different functions written for the same slot.
Fn(name, fmt, cls, v) == fmt \o "_" \o name \o "_" \o cls \o "_" \o v

IdentifierFn(fmt, v) == fmt \o "_identifier_" \o v

\* What identifier `test` answers: the first version of an identifier claims
\* the file it is shown, the second does not.
Claims(test) == \E fmt \in Formats : test = IdentifierFn(fmt, "1")

\* Where an identifier leaves the read offset: it reads the file to its end.
OffsetAfter(test, pos) == MaxPos

\* what reader `reader` returns when it returns
ResultOf(reader) == "result_of_" \o reader

(***************************************************************************)
(* Python dicts whose iteration order the code depends on are sequences of *)
(* [key, val] items in insertion order.                                    *)
(***************************************************************************)
Keys(d) == [i \in 1..Len(d) |-> d[i].key]

Has(d, k) == \E i \in 1..Len(d) : d[i].key = k

Get(d, k) == d[CHOOSE i \in 1..Len(d) : d[i].key = k].val

\* d[k] = v
Put(d, k, v) ==
    IF Has(d, k)
    THEN [i \in 1..Len(d) |-> IF d[i].key = k THEN [key |-> k, val |-> v] ELSE d[i]]
    ELSE Append(d, [key |-> k, val |-> v])

\* the number of functions a registry holds
SizeOf(ids, formats) ==
    Len(ids)
    + Cardinality({<<i, c, n>> \in (1..Len(formats)) \X Classes \X Roles :
                      /\ c \in DOMAIN formats[i].val
                      /\ n \in DOMAIN formats[i].val[c]})

RegistrySize == SizeOf(_identifiers, _formats)

(***************************************************************************)
(* The record of a call: what was called, with what, and how it ended.     *)
(***************************************************************************)
NoCall == [op |-> "none", fmt |-> None, cls |-> None, func |-> None,
           exc |-> None, ret |-> None, lst |-> <<>>, to |-> None]

Call(op, fmt, cls, func, exc, ret, lst) ==
    [op |-> op, fmt |-> fmt, cls |-> cls, func |-> func,
     exc |-> exc, ret |-> ret, lst |-> lst, to |-> None]

(***************************************************************************)
(* File objects.  A call is given a path (which it opens, and then owns)   *)
(* or a file object the caller opened.                                     *)
(***************************************************************************)
NewFile == [open |-> FALSE, closes |-> 0, pos |-> 0]

Path == [given |-> TRUE, path |-> TRUE, file |-> NewFile]

FileObj(f) == [given |-> TRUE, path |-> FALSE, file |-> f]

\* no source or destination given (the argument is None)
Nowhere == [given |-> FALSE, path |-> FALSE, file |-> NewFile]

\* what a call may be handed: a path, or a file object the caller opened and
\* has read from
Sources == {Path, FileObj([open |-> TRUE, closes |-> 0, pos |-> MaxPos])}

close(f) == [f EXCEPT !.open = FALSE, !.closes = @ + 1]

seek(f, offset) == [f EXCEPT !.pos = offset]

\* the file object a call worked on, and whether the call owned it
NoFile == [used |-> FALSE, is_own |-> FALSE, file |-> NewFile]

Used(f, is_own) == [used |-> TRUE, is_own |-> is_own, file |-> f]

\* the generator a streaming read returned: not yet started ("created"),
\* suspended at its yield, finished ("done"), or left by a caller that will
\* neither pull from it nor dispose of it ("abandoned"); `how` is how it
\* finished, `reader_calls` how many times it has called reader(fh)
NoGen == [state |-> "none", reader |-> None, is_own |-> FALSE, file |-> NewFile,
          yielded |-> 0, how |-> None, reader_calls |-> 0]

\* an invocation of a registered function: which, on a file in what state
Invocation(role, func, f) == [role |-> role, func |-> func, open |-> f.open, pos |-> f.pos]

_get_filehandle(fp) ==
    IF fp.path
    THEN [fh |-> [fp.file EXCEPT !.open = TRUE], is_own |-> TRUE]
    ELSE [fh |-> fp.file, is_own |-> FALSE]

\* leaving the `with open_file(...) as fh` block, on any path
open_file_exit(f, own_fh) == IF own_fh THEN close(f) ELSE f

(***************************************************************************)
(* Registration: register_identifier, register_reader, register_writer.    *)
(***************************************************************************)
\* register_identifier as it would be if a second registration replaced the first
register_identifier_overwrite(fmt, identifier) ==
    [exc |-> None, ids |-> Put(_identifiers, fmt, identifier), ret |-> identifier]

\* decorator(identifier) of register_identifier(fmt): the outcome
register_identifier(fmt, identifier) ==
    IF Has(_identifiers, fmt)
    THEN [exc |-> "DuplicateRegistrationError", ids |-> _identifiers, ret |-> None]
    ELSE [exc |-> None, ids |-> Put(_identifiers, fmt, identifier), ret |-> identifier]

\* _rw_decorator as it would be if it stored the function without looking
\* whether the slot is taken
_rw_decorator_overwrite(name, fmt, args, func) ==
    IF Len(args) > 1
    THEN [exc |-> "TypeError", formats |-> _formats, ret |-> None]
    ELSE
      LET cls == IF Len(args) = 1 THEN args[1] ELSE None
          format_dict == IF Has(_formats, fmt) THEN Get(_formats, fmt) ELSE <<>>
          format_class == IF cls \in DOMAIN format_dict THEN format_dict[cls] ELSE <<>>
      IN [exc |-> None,
          formats |-> Put(_formats, fmt,
                          (cls :> ((name :> func) @@ format_class)) @@ format_dict),
          ret |-> func]

\* decorator(func) of _rw_decorator(name, fmt, *args): the outcome
_rw_decorator(name, fmt, args, func) ==
    IF Len(args) > 1
    THEN [exc |-> "TypeError", formats |-> _formats, ret |-> None]
    ELSE
      LET cls == IF Len(args) = 1 THEN args[1] ELSE None
          formats1 == IF ~Has(_formats, fmt) THEN Put(_formats, fmt, <<>>) ELSE _formats
          format_dict0 == Get(formats1, fmt)
          format_dict == IF cls \notin DOMAIN format_dict0
                         THEN (cls :> <<>>) @@ format_dict0
                         ELSE format_dict0
          format_class == format_dict[cls]
      IN IF name \notin DOMAIN format_class
         THEN [exc |-> None,
               formats |-> Put(formats1, fmt,
                               [format_dict EXCEPT ![cls] = (name :> func) @@ format_class]),
               ret |-> func]
         \* the message is built from cls.__name__, which None does not have
         ELSE [exc |-> IF cls = None THEN "AttributeError"
                       ELSE "DuplicateRegistrationError",
               formats |-> Put(formats1, fmt, format_dict),
               ret |-> None]

register_reader(fmt, cls, func) == _rw_decorator("reader", fmt, cls, func)

register_writer(fmt, cls, func) == _rw_decorator("writer", fmt, cls, func)

(***************************************************************************)
(* Lookup: get_identifier, get_reader, get_writer, list_*_formats.         *)
(***************************************************************************)
get_identifier(fmt) ==
    IF Has(_identifiers, fmt) THEN Get(_identifiers, fmt) ELSE None

\* _rw_getter as it would be if it looked the function up by format and role
\* only, under whichever owner type has one
_rw_getter_any_class(name, fmt, args) ==
    IF Len(args) > 1
    THEN [exc |-> "TypeError", ret |-> None]
    ELSE
      LET holders == IF Has(_formats, fmt)
                     THEN {c \in DOMAIN Get(_formats, fmt) :
                             name \in DOMAIN Get(_formats, fmt)[c]}
                     ELSE {}
      IN IF holders # {}
         THEN [exc |-> None,
               ret |-> Get(_formats, fmt)[CHOOSE c \in holders : TRUE][name]]
         ELSE [exc |-> None, ret |-> None]

_rw_getter(name, fmt, args) ==
    IF Len(args) > 1
    THEN [exc |-> "TypeError", ret |-> None]
    ELSE
      LET cls == IF Len(args) = 1 THEN args[1] ELSE None
      IN IF /\ Has(_formats, fmt)
            /\ cls \in DOMAIN Get(_formats, fmt)
            /\ name \in DOMAIN Get(_formats, fmt)[cls]
         THEN [exc |-> None, ret |-> Get(_formats, fmt)[cls][name]]
         ELSE [exc |-> None, ret |-> None]

\* get_reader as it would be if, finding no reader for the class, it fell
\* back on the generator reader of the format
get_reader_or_generator(fmt, cls) ==
    IF _rw_getter("reader", fmt, cls).ret # None
    THEN _rw_getter("reader", fmt, cls)
    ELSE _rw_getter("reader", fmt, <<>>)

get_reader(fmt, cls) == _rw_getter("reader", fmt, cls)

get_writer(fmt, cls) == _rw_getter("writer", fmt, cls)

\* _rw_list_formats as it would be if it listed every format that has the
\* class, whichever functions are registered for it
_rw_list_formats_any_role(name, cls) ==
    LET keep(fmt) == cls \in DOMAIN Get(_formats, fmt)
    IN SelectSeq(Keys(_formats), keep)

\* the formats of _formats, in its iteration order, that hold a `name` for cls
_rw_list_formats(name, cls) ==
    LET keep(fmt) == /\ cls \in DOMAIN Get(_formats, fmt)
                     /\ name \in DOMAIN Get(_formats, fmt)[cls]
    IN SelectSeq(Keys(_formats), keep)

list_read_formats(cls) == _rw_list_formats("reader", cls)

list_write_formats(cls) == _rw_list_formats("writer", cls)

\* the owner type a *cls argument list stands for ("?" when the call is
\* rejected for its arity)
ClsOf(args) == IF Len(args) > 1 THEN "?" ELSE IF Len(args) = 1 THEN args[1] ELSE None


(***************************************************************************)
(* guess_format.                                                           *)
(***************************************************************************)
RECURSIVE guess_loop_no_rewind(_, _, _, _, _)
\* the loop as it would be without the fh.seek(0) that follows each test
guess_loop_no_rewind(i, cls, f, possibles, invoked) ==
    IF i > Len(_identifiers)
    THEN [fh |-> f, possibles |-> possibles, calls |-> invoked]
    ELSE
      LET fmt == _identifiers[i].key
      IN IF cls # None /\ (~Has(_formats, fmt) \/ cls \notin DOMAIN Get(_formats, fmt))
         THEN guess_loop_no_rewind(i + 1, cls, f, possibles, invoked)
         ELSE
           LET test == _identifiers[i].val
               tested == seek(f, OffsetAfter(test, f.pos))
           IN guess_loop_no_rewind(i + 1, cls, tested,
                                   IF Claims(test) THEN Append(possibles, fmt) ELSE possibles,
                                   Append(invoked, Invocation("identifier", test, f)))

RECURSIVE guess_loop_short_circuit(_, _, _, _, _)
\* the loop as it would be if it stopped at the first identifier that claims
\* the file
guess_loop_short_circuit(i, cls, f, possibles, invoked) ==
    IF i > Len(_identifiers) \/ possibles # <<>>
    THEN [fh |-> f, possibles |-> possibles, calls |-> invoked]
    ELSE
      LET fmt == _identifiers[i].key
      IN IF cls # None /\ (~Has(_formats, fmt) \/ cls \notin DOMAIN Get(_formats, fmt))
         THEN guess_loop_short_circuit(i + 1, cls, f, possibles, invoked)
         ELSE
           LET test == _identifiers[i].val
               tested == seek(f, OffsetAfter(test, f.pos))
           IN guess_loop_short_circuit(i + 1, cls, seek(tested, 0),
                                       IF Claims(test) THEN Append(possibles, fmt)
                                       ELSE possibles,
                                       Append(invoked, Invocation("identifier", test, f)))

RECURSIVE guess_loop(_, _, _, _, _)
\* `for fmt in _identifiers`, from the i-th key on
guess_loop(i, cls, f, possibles, invoked) ==
    IF i > Len(_identifiers)
    THEN [fh |-> f, possibles |-> possibles, calls |-> invoked]
    ELSE
      LET fmt == _identifiers[i].key
      IN IF cls # None /\ (~Has(_formats, fmt) \/ cls \notin DOMAIN Get(_formats, fmt))
         THEN guess_loop(i + 1, cls, f, possibles, invoked)
         ELSE
           LET test == _identifiers[i].val
               tested == seek(f, OffsetAfter(test, f.pos))
           IN guess_loop(i + 1, cls, seek(tested, 0),
                         IF Claims(test) THEN Append(possibles, fmt) ELSE possibles,
                         Append(invoked, Invocation("identifier", test, f)))

\* guess_format as it would be if it settled for the first identifier that
\* claims the file
guess_format_first_match(fp, cls) ==
    LET h == _get_filehandle(fp)
        l == guess_loop(1, cls, seek(h.fh, 0), <<>>, <<>>)
        out == [fh |-> open_file_exit(l.fh, h.is_own), is_own |-> h.is_own,
                calls |-> l.calls, possibles |-> l.possibles]
    IN IF l.possibles = <<>>
       THEN [exc |-> "FormatIdentificationError", ret |-> None] @@ out
       ELSE [exc |-> None, ret |-> l.possibles[1]] @@ out

\* guess_format as it would be if the loop did not look at cls
guess_format_unrestricted(fp, cls) ==
    LET h == _get_filehandle(fp)
        l == guess_loop(1, None, seek(h.fh, 0), <<>>, <<>>)
        out == [fh |-> open_file_exit(l.fh, h.is_own), is_own |-> h.is_own,
                calls |-> l.calls, possibles |-> l.possibles]
    IN IF l.possibles = <<>>
       THEN [exc |-> "FormatIdentificationError", ret |-> None] @@ out
       ELSE IF Len(l.possibles) > 1
       THEN [exc |-> "FormatIdentificationError", ret |-> None] @@ out
       ELSE [exc |-> None, ret |-> l.possibles[1]] @@ out

guess_format(fp, cls) ==
    LET h == _get_filehandle(fp)
        l == guess_loop(1, cls, seek(h.fh, 0), <<>>, <<>>)
        out == [fh |-> open_file_exit(l.fh, h.is_own), is_own |-> h.is_own,
                calls |-> l.calls, possibles |-> l.possibles]
    IN IF l.possibles = <<>>
       THEN [exc |-> "FormatIdentificationError", ret |-> None] @@ out
       ELSE IF Len(l.possibles) > 1
       THEN [exc |-> "FormatIdentificationError", ret |-> None] @@ out
       ELSE [exc |-> None, ret |-> l.possibles[1]] @@ out

(***************************************************************************)
(* read, and the generator it returns when `into` is None.                 *)
(***************************************************************************)
\* read_into as it would be if the stream were left open after the reader
\* returned
read_into_no_close(reader, f, is_own, behaviour, invoked) ==
    [exc |-> IF behaviour = "raise" THEN "Exception" ELSE None,
     ret |-> IF behaviour = "raise" THEN None ELSE ResultOf(reader),
     lst |-> <<>>, fh |-> Used(seek(f, MaxPos), is_own),
     calls |-> Append(invoked, Invocation("reader", reader, f)), gen |-> NoGen]

\* reader(fh) called where a value is wanted: the reader reads the file and
\* returns ("return") or fails ("raise")
read_into(reader, f, is_own, behaviour, invoked) ==
    LET called == Append(invoked, Invocation("reader", reader, f))
        result == seek(f, MaxPos)
    IN IF behaviour = "raise"
       THEN [exc |-> "Exception", ret |-> None, lst |-> <<>>,
             fh |-> Used(result, is_own), calls |-> called, gen |-> NoGen]
       ELSE [exc |-> None, ret |-> ResultOf(reader), lst |-> <<>>,
             fh |-> Used(IF is_own THEN close(result) ELSE result, is_own),
             calls |-> called, gen |-> NoGen]

\* read as it would be if it looked at its arguments only after it had the
\* file handle of line 479
read_check_after_open(fp, format, into, behaviour) ==
    IF format = None /\ into = None
    THEN [exc |-> "ValueError", ret |-> None, lst |-> <<>>,
          fh |-> Used(_get_filehandle(fp).fh, _get_filehandle(fp).is_own),
          calls |-> <<>>, gen |-> NoGen]
    ELSE
      LET h == _get_filehandle(fp)
          guessed == guess_format(FileObj(h.fh), into)
          f == IF format = None THEN guessed.fh ELSE h.fh
          invoked == IF format = None THEN guessed.calls ELSE <<>>
          format1 == IF format = None THEN guessed.ret ELSE format
          reader == get_reader(format1, <<into>>).ret
      IN IF format = None /\ guessed.exc # None
         THEN [exc |-> guessed.exc, ret |-> None, lst |-> guessed.possibles,
               fh |-> Used(f, h.is_own), calls |-> invoked, gen |-> NoGen]
         ELSE IF reader = None
         THEN [exc |-> "FileFormatError", ret |-> None, lst |-> <<>>,
               fh |-> Used(f, h.is_own), calls |-> invoked, gen |-> NoGen]
         ELSE IF into = None
         THEN [exc |-> None, ret |-> "generator", lst |-> <<>>, fh |-> NoFile,
               calls |-> invoked,
               gen |-> [state |-> "created", reader |-> reader, is_own |-> h.is_own,
                        file |-> f, yielded |-> 0, how |-> None, reader_calls |-> 0]]
         ELSE read_into(reader, f, h.is_own, behaviour, invoked)

\* read as it would be if it called reader(fh) itself and handed the result
\* to the generator, which calls it again when it starts
read_reader_called_early(fp, format, into, behaviour) ==
    IF format = None /\ into = None
    THEN [exc |-> "ValueError", ret |-> None, lst |-> <<>>, fh |-> NoFile,
          calls |-> <<>>, gen |-> NoGen]
    ELSE
      LET h == _get_filehandle(fp)
          guessed == guess_format(FileObj(h.fh), into)
          f == IF format = None THEN guessed.fh ELSE h.fh
          invoked == IF format = None THEN guessed.calls ELSE <<>>
          format1 == IF format = None THEN guessed.ret ELSE format
          reader == get_reader(format1, <<into>>).ret
      IN IF format = None /\ guessed.exc # None
         THEN [exc |-> guessed.exc, ret |-> None, lst |-> guessed.possibles,
               fh |-> Used(f, h.is_own), calls |-> invoked, gen |-> NoGen]
         ELSE IF reader = None
         THEN [exc |-> "FileFormatError", ret |-> None, lst |-> <<>>,
               fh |-> Used(f, h.is_own), calls |-> invoked, gen |-> NoGen]
         ELSE IF into = None
         THEN [exc |-> None, ret |-> "generator", lst |-> <<>>, fh |-> NoFile,
               calls |-> Append(invoked, Invocation("reader", reader, f)),
               gen |-> [state |-> "created", reader |-> reader, is_own |-> h.is_own,
                        file |-> f, yielded |-> 0, how |-> None, reader_calls |-> 1]]
         ELSE read_into(reader, f, h.is_own, behaviour, invoked)

read(fp, format, into, behaviour) ==
    IF format = None /\ into = None
    THEN [exc |-> "ValueError", ret |-> None, lst |-> <<>>, fh |-> NoFile,
          calls |-> <<>>, gen |-> NoGen]
    ELSE
      LET h == _get_filehandle(fp)
          guessed == guess_format(FileObj(h.fh), into)
          f == IF format = None THEN guessed.fh ELSE h.fh
          invoked == IF format = None THEN guessed.calls ELSE <<>>
          format1 == IF format = None THEN guessed.ret ELSE format
          reader == get_reader(format1, <<into>>).ret
      IN IF format = None /\ guessed.exc # None
         THEN [exc |-> guessed.exc, ret |-> None, lst |-> guessed.possibles,
               fh |-> Used(f, h.is_own), calls |-> invoked, gen |-> NoGen]
         ELSE IF reader = None
         THEN [exc |-> "FileFormatError", ret |-> None, lst |-> <<>>,
               fh |-> Used(f, h.is_own), calls |-> invoked, gen |-> NoGen]
         ELSE IF into = None
         THEN [exc |-> None, ret |-> "generator", lst |-> <<>>, fh |-> NoFile,
               calls |-> invoked,
               gen |-> [state |-> "created", reader |-> reader, is_own |-> h.is_own,
                        file |-> f, yielded |-> 0, how |-> None, reader_calls |-> 0]]
         ELSE read_into(reader, f, h.is_own, behaviour, invoked)

\* the finally clause as it would be if it closed the file whoever owns it
wrapper_generator_finally_any(g) == close(g.file)

\* the `finally` clause of wrapper_generator
wrapper_generator_finally(g) == IF g.is_own THEN close(g.file) ELSE g.file

\* next() on the generator.  `call` is how reader(fh) ends when the generator
\* starts, `step` what next(original) does: it yields, stops or fails.  When
\* next(original) raises StopIteration the generator ends (the caller sees
\* StopIteration, or RuntimeError where PEP 479 is in force); the finally
\* clause runs either way.
wrapper_generator_next(g, call, step) ==
    IF g.state = "done"
    THEN [gen |-> g, exc |-> "StopIteration", ret |-> None, calls |-> <<>>]
    ELSE
      LET invoked == IF g.state = "created"
                     THEN <<Invocation("reader", g.reader, g.file)>> ELSE <<>>
          started == [g EXCEPT !.reader_calls = @ + Len(invoked)]
      IN IF g.state = "created" /\ call = "raise"
         \* original = reader(...) is outside the try
         THEN [gen |-> [started EXCEPT !.state = "done", !.how = "reader"],
               exc |-> "Exception", ret |-> None, calls |-> invoked]
         ELSE IF step = "yield"
         THEN [gen |-> [started EXCEPT !.state = "suspended", !.yielded = @ + 1],
               exc |-> None, ret |-> "element", calls |-> invoked]
         ELSE [gen |-> [started EXCEPT !.state = "done",
                                       !.file = wrapper_generator_finally(g),
                                       !.how = IF step = "stop" THEN "StopIteration"
                                               ELSE "Exception"],
               exc |-> IF step = "stop" THEN "StopIteration" ELSE "Exception",
               ret |-> None, calls |-> invoked]

\* close() on the generator, by the caller or when the generator object is
\* finalized: GeneratorExit is raised at the yield it is suspended at; a
\* generator that never started just ends
wrapper_generator_close(g) ==
    IF g.state = "suspended"
    THEN [g EXCEPT !.state = "done", !.file = wrapper_generator_finally(g),
                   !.how = "GeneratorExit"]
    ELSE IF g.state = "created"
    THEN [g EXCEPT !.state = "done", !.how = "unstarted"]
    ELSE g

(***************************************************************************)
(* write.                                                                  *)
(***************************************************************************)
\* writer(obj, fh) inside the with block: it returns ("return") or fails
\* ("raise"), and the block is left
write_writer(writer, f, is_own, behaviour) ==
    [exc |-> IF behaviour = "raise" THEN "Exception" ELSE None,
     fh |-> Used(open_file_exit(f, is_own), is_own),
     calls |-> <<Invocation("writer", writer, f)>>]

\* write as it would be if FileFormatError were raised with the file it
\* opened left open
write_no_release(obj_class, format, into, behaviour) ==
    IF format = None \/ ~into.given
    THEN [exc |-> "ValueError", fh |-> NoFile, calls |-> <<>>]
    ELSE
      LET h == _get_filehandle(into)
          writer == get_writer(format, <<obj_class>>).ret
      IN IF writer = None
         THEN [exc |-> "FileFormatError", fh |-> Used(h.fh, h.is_own), calls |-> <<>>]
         ELSE write_writer(writer, h.fh, h.is_own, behaviour)

\* write as it would be without the check of lines 548-549
write_no_destination_check(obj_class, format, into, behaviour) ==
    IF format = None
    THEN [exc |-> "ValueError", fh |-> NoFile, calls |-> <<>>]
    ELSE
      LET h == _get_filehandle(into)
          writer == get_writer(format, <<obj_class>>).ret
      IN IF writer = None
         THEN [exc |-> "FileFormatError",
               fh |-> Used(open_file_exit(h.fh, h.is_own), h.is_own), calls |-> <<>>]
         ELSE write_writer(writer, h.fh, h.is_own, behaviour)

\* write as it would be if it looked a generator up under None, the class
\* the generator writers are registered for
write_generator_as_none(obj_class, format, into, behaviour) ==
    IF format = None \/ ~into.given
    THEN [exc |-> "ValueError", fh |-> NoFile, calls |-> <<>>]
    ELSE
      LET h == _get_filehandle(into)
          writer == get_writer(format, IF obj_class = "generator" THEN <<None>>
                                       ELSE <<obj_class>>).ret
      IN IF writer = None
         THEN [exc |-> "FileFormatError",
               fh |-> Used(open_file_exit(h.fh, h.is_own), h.is_own), calls |-> <<>>]
         ELSE write_writer(writer, h.fh, h.is_own, behaviour)

write(obj_class, format, into, behaviour) ==
    IF format = None
    THEN [exc |-> "ValueError", fh |-> NoFile, calls |-> <<>>]
    ELSE IF ~into.given
    THEN [exc |-> "ValueError", fh |-> NoFile, calls |-> <<>>]
    ELSE
      LET h == _get_filehandle(into)
          writer == get_writer(format, <<obj_class>>).ret
      IN IF writer = None
         THEN [exc |-> "FileFormatError",
               fh |-> Used(open_file_exit(h.fh, h.is_own), h.is_own), calls |-> <<>>]
         ELSE write_writer(writer, h.fh, h.is_own, behaviour)

(***************************************************************************)
(* The calls, as actions.  While a generator is live (created or           *)
(* suspended) the caller is busy with it: it pulls from it, closes it or   *)
(* abandons it before making another call, and a generator that is         *)
(* finished with is forgotten at the next call.                            *)
(***************************************************************************)
Behaviours == {"return", "raise"}

Busy == gen.state \in {"created", "suspended"}

Forget ==
    /\ ~Busy
    /\ gen' = NoGen

Remember == before' = [ids |-> _identifiers, formats |-> _formats]

RegisterIdentifier ==
    /\ Forget
    /\ \E fmt \in Formats, v \in Versions :
       \E r \in {register_identifier(fmt, IdentifierFn(fmt, v))} :
         /\ r.exc = None => RegistrySize < MaxRegs
         /\ _identifiers' = r.ids
         /\ last' = Call("register_identifier", fmt, None, IdentifierFn(fmt, v),
                         r.exc, r.ret, <<>>)
         /\ calls' = <<>>
         /\ fh' = NoFile
         /\ Remember
         /\ UNCHANGED _formats

\* The functions written for a reader or writer slot are interchangeable, so
\* the one an empty slot is offered is taken to be its first version; a call
\* with too many arguments is made once per role.
RegisterRW ==
    /\ Forget
    /\ \E name \in Roles, fmt \in Formats, args \in ClsArgs, v \in Versions :
         /\ Len(args) > 1 => fmt = "fasta" /\ v = "1"
         /\ Len(args) <= 1 /\ _rw_getter(name, fmt, args).ret = None => v = "1"
         /\ \E func \in {Fn(name, fmt, ClsOf(args), v)} :
            \E r \in {IF name = "reader" THEN register_reader(fmt, args, func)
                      ELSE register_writer(fmt, args, func)} :
              /\ r.exc = None => RegistrySize < MaxRegs
              /\ _formats' = r.formats
              /\ last' = Call("register_" \o name, fmt, ClsOf(args), func,
                              r.exc, r.ret, <<>>)
              /\ calls' = <<>>
              /\ fh' = NoFile
              /\ Remember
              /\ UNCHANGED _identifiers

GetIdentifier ==
    /\ Forget
    /\ \E fmt \in Formats :
         /\ last' = Call("get_identifier", fmt, None, None, None, get_identifier(fmt), <<>>)
         /\ calls' = <<>>
         /\ fh' = NoFile
         /\ Remember
         /\ UNCHANGED <<_identifiers, _formats>>

GetRW ==
    /\ Forget
    /\ \E name \in Roles, fmt \in Formats, args \in ClsArgs :
         /\ Len(args) > 1 => fmt = "fasta"
         /\ \E r \in {IF name = "reader" THEN get_reader(fmt, args)
                      ELSE get_writer(fmt, args)} :
              /\ last' = Call("get_" \o name, fmt, ClsOf(args), None, r.exc, r.ret, <<>>)
              /\ calls' = <<>>
              /\ fh' = NoFile
              /\ Remember
              /\ UNCHANGED <<_identifiers, _formats>>

ListFormats ==
    /\ Forget
    /\ \E name \in Roles, cls \in Classes :
       \E l \in {IF name = "reader" THEN list_read_formats(cls)
                 ELSE list_write_formats(cls)} :
         /\ last' = Call("list_" \o name, None, cls, None, None, None, l)
         /\ calls' = <<>>
         /\ fh' = NoFile
         /\ Remember
         /\ UNCHANGED <<_identifiers, _formats>>

GuessFormat ==
    /\ Forget
    /\ \E fp \in Sources, cls \in Classes :
       \E r \in {guess_format(fp, cls)} :
         /\ last' = Call("guess_format", None, cls, None, r.exc, r.ret, r.possibles)
         /\ calls' = r.calls
         /\ fh' = Used(r.fh, r.is_own)
         /\ Remember
         /\ UNCHANGED <<_identifiers, _formats>>

\* `behaviour` is what the reader does if read calls it
Read ==
    /\ ~Busy
    /\ \E fp \in Sources, format \in Formats \cup {None}, into \in Classes :
       \E behaviour \in IF into = None THEN {"return"} ELSE Behaviours :
       \E r \in {read(fp, format, into, behaviour)} :
         /\ behaviour = "raise" => r.exc = "Exception"
         /\ last' = Call("read", format, into, None, r.exc, r.ret, r.lst)
         /\ calls' = r.calls
         /\ fh' = r.fh
         /\ Remember
         /\ gen' = r.gen
         /\ UNCHANGED <<_identifiers, _formats>>

\* next(gen) on the generator read returned
GeneratorNext ==
    /\ gen.state \in {"created", "suspended", "done"}
    /\ \E call \in Behaviours, step \in {"yield", "stop", "raise"} :
         /\ step = "yield" => gen.yielded < MaxElems
         /\ \E r \in {wrapper_generator_next(gen, call, step)} :
              /\ gen' = r.gen
              /\ last' = Call("next", None, None, None, r.exc, r.ret, <<>>)
              /\ calls' = r.calls
              /\ fh' = NoFile
              /\ Remember
              /\ UNCHANGED <<_identifiers, _formats>>

\* gen.close(), called by the caller or by the finalizer of the generator
GeneratorClose ==
    /\ Busy
    /\ gen' = wrapper_generator_close(gen)
    /\ last' = Call("close", None, None, None, None, None, <<>>)
    /\ calls' = <<>>
    /\ fh' = NoFile
    /\ Remember
    /\ UNCHANGED <<_identifiers, _formats>>

\* The caller stops pulling and never disposes of the generator (it keeps a
\* reference, or the interpreter does not finalize it): no code runs.
GeneratorAbandon ==
    /\ Busy
    /\ gen' = [gen EXCEPT !.state = "abandoned"]
    /\ last' = Call("abandon", None, None, None, None, None, <<>>)
    /\ calls' = <<>>
    /\ fh' = NoFile
    /\ Remember
    /\ UNCHANGED <<_identifiers, _formats>>

\* what write may be handed as `into`
Destinations == {Path, FileObj([open |-> TRUE, closes |-> 0, pos |-> 0]), Nowhere}

\* what write was given as `into`: a path, a file object, or None
DestinationOf(into) == IF ~into.given THEN None ELSE IF into.path THEN "path" ELSE "file"

\* `behaviour` is what the writer does if write calls it
Write ==
    /\ Forget
    /\ \E obj_class \in ObjClasses, format \in Formats \cup {None},
          into \in Destinations :
       \E behaviour \in IF format = None \/ ~into.given THEN {"return"} ELSE Behaviours :
       \E r \in {write(obj_class, format, into, behaviour)} :
         /\ behaviour = "raise" => r.exc = "Exception"
         /\ last' = [Call("write", format, obj_class, None, r.exc, None, <<>>)
                        EXCEPT !.to = DestinationOf(into)]
         /\ calls' = r.calls
         /\ fh' = r.fh
         /\ Remember
         /\ UNCHANGED <<_identifiers, _formats>>

Init ==
    /\ _identifiers = <<>>
    /\ _formats = <<>>
    /\ last = NoCall
    /\ calls = <<>>
    /\ fh = NoFile
    /\ gen = NoGen
    /\ before = [ids |-> <<>>, formats |-> <<>>]

Next ==
    \/ RegisterIdentifier
    \/ RegisterRW
    \/ GetIdentifier
    \/ GetRW
    \/ ListFormats
    \/ GuessFormat
    \/ Read
    \/ GeneratorNext
    \/ GeneratorClose
    \/ GeneratorAbandon
    \/ Write

Spec == Init /\ [][Next]_vars

(***************************************************************************)
(* What the properties below read off a state.                             *)
(***************************************************************************)
\* the function in the reader or writer slot (fmt, cls), or None
Slot(name, fmt, cls) == _rw_getter(name, fmt, <<cls>>).ret

\* the same, read off the registry as it was before the call
SlotBefore(name, fmt, cls) ==
    IF /\ Has(before.formats, fmt)
       /\ cls \in DOMAIN Get(before.formats, fmt)
       /\ name \in DOMAIN Get(before.formats, fmt)[cls]
    THEN Get(before.formats, fmt)[cls][name]
    ELSE None

IdentifierBefore(fmt) == IF Has(before.ids, fmt) THEN Get(before.ids, fmt) ELSE None

RegistryUnchanged == _identifiers = before.ids /\ _formats = before.formats

RegisterOps == {"register_identifier", "register_reader", "register_writer"}

\* the formats whose identifier a guess_format(fp, cls) call applies to: those
\* with an identifier and, when an owner type is given, a reader or a writer
\* bound to it
Applicable(cls) ==
    {fmt \in Formats :
        /\ get_identifier(fmt) # None
        /\ cls = None \/ Slot("reader", fmt, cls) # None \/ Slot("writer", fmt, cls) # None}

\* those of them whose identifier claims the file
Matching(cls) == {fmt \in Applicable(cls) : Claims(get_identifier(fmt))}

Range(q) == {q[i] : i \in 1..Len(q)}

\* the format a read reads: the one it was given, or else the one
\* guess_format settles on (None when it settles on none)
FormatRead ==
    IF last.fmt # None THEN last.fmt
    ELSE IF Cardinality(Matching(last.cls)) = 1 THEN CHOOSE fmt \in Matching(last.cls) : TRUE
    ELSE None

\* the identifiers a call invoked
IdentifiersCalled == {calls[i].func : i \in {j \in 1..Len(calls) : calls[j].role = "identifier"}}

(***************************************************************************)
(* C1.  Streaming read from a path: the stream read opened is closed       *)
(* exactly once, when the generator is exhausted or a pull on it fails; it *)
(* is open while the generator has not started or is suspended between     *)
(* elements, and later pulls do not close it again.                        *)
(***************************************************************************)
C1_ClosedOnceAtExhaustionOrError ==
    gen.is_own =>
      /\ gen.file.closes <= 1
      /\ gen.state \in {"created", "suspended"} =>
           gen.file.open /\ gen.file.closes = 0
      /\ gen.state = "done" /\ gen.how \in {"StopIteration", "Exception", "reader"} =>
           ~gen.file.open /\ gen.file.closes = 1

(***************************************************************************)
(* C2.  Streaming read from a path: a caller that pulled some elements and *)
(* then abandoned the generator leaves the stream closed exactly once.     *)
(***************************************************************************)
C2_AbandonedClosedOnce ==
    gen.state = "abandoned" /\ gen.is_own /\ gen.yielded >= 1 =>
      ~gen.file.open /\ gen.file.closes = 1

(***************************************************************************)
(* C3.  A read that was given a path and fails while dispatching (the      *)
(* format cannot be guessed, no reader is found, or the reader fails in    *)
(* eager mode) has closed the stream it opened when the failure reaches    *)
(* the caller.                                                             *)
(***************************************************************************)
C3_FailedReadClosesOwned ==
    /\ last.op = "read"
    /\ last.exc \in {"FormatIdentificationError", "FileFormatError", "Exception"}
    /\ fh.used /\ fh.is_own
    => ~fh.file.open

(***************************************************************************)
(* C4.  A file object handed to read by the caller is never closed by      *)
(* read: not after an eager read, not when the generator is exhausted or   *)
(* a pull fails, and not while or after the format is guessed on it.       *)
(***************************************************************************)
C4_BorrowedNeverClosed ==
    /\ last.op = "read" /\ fh.used /\ ~fh.is_own =>
         /\ fh.file.open /\ fh.file.closes = 0
         /\ \A i \in 1..Len(calls) : calls[i].open
    /\ gen.state # "none" /\ ~gen.is_own =>
         /\ gen.file.open /\ gen.file.closes = 0
         /\ last.op \in {"read", "next"} => \A i \in 1..Len(calls) : calls[i].open

\* a pull failed, after an element, on a generator reading a borrowed file
C4_Witness ==
    /\ gen.state = "done" /\ ~gen.is_own
    /\ gen.how = "Exception" /\ gen.yielded >= 1
    /\ last.op = "next"

(***************************************************************************)
(* C5.  A reader (writer) registration for a slot (f, t) that already      *)
(* holds a reader (writer), t being a class or None, is rejected with      *)
(* DuplicateRegistrationError and leaves the registry as it was.           *)
(***************************************************************************)
C5_DuplicateRejected ==
    \A name \in Roles, fmt \in Formats, cls \in Classes :
      /\ last.op = "register_" \o name /\ last.fmt = fmt /\ last.cls = cls
      /\ SlotBefore(name, fmt, cls) # None
      => /\ last.exc = "DuplicateRegistrationError"
         /\ RegistryUnchanged

(***************************************************************************)
(* C6.  register_identifier(f)(g) with no identifier registered for f      *)
(* stores g, so that get_identifier(f) returns g; with an identifier       *)
(* registered for f it raises DuplicateRegistrationError and               *)
(* get_identifier(f) returns what it returned before.                      *)
(***************************************************************************)
C6_RegisterThenGetIdentifier ==
    last.op = "register_identifier" =>
      IF IdentifierBefore(last.fmt) = None
      THEN /\ last.exc = None
           /\ get_identifier(last.fmt) = last.func
      ELSE /\ last.exc = "DuplicateRegistrationError"
           /\ get_identifier(last.fmt) = IdentifierBefore(last.fmt)

\* another function was offered for a format that has an identifier
C6_Witness ==
    /\ last.op = "register_identifier"
    /\ last.exc = "DuplicateRegistrationError"
    /\ get_identifier(last.fmt) \notin {None, last.func}

(***************************************************************************)
(* C7.  Registry slots are write-once: no call changes or empties a slot   *)
(* that holds a function, and the registry changes only when a             *)
(* registration succeeds, which fills one empty slot.                      *)
(***************************************************************************)
C7_WriteOnce ==
    /\ \A fmt \in Formats :
         IdentifierBefore(fmt) # None => get_identifier(fmt) = IdentifierBefore(fmt)
    /\ \A name \in Roles, fmt \in Formats, cls \in Classes :
         SlotBefore(name, fmt, cls) # None =>
           Slot(name, fmt, cls) = SlotBefore(name, fmt, cls)
    /\ ~RegistryUnchanged =>
         /\ last.op \in RegisterOps /\ last.exc = None
         /\ RegistrySize = SizeOf(before.ids, before.formats) + 1

\* a second reader was offered for an occupied slot, which still holds the first
C7_Witness ==
    /\ last.op = "register_reader"
    /\ last.exc \notin {None, "TypeError"}
    /\ Slot("reader", last.fmt, last.cls) \notin {None, last.func}

(***************************************************************************)
(* C8.  Roles and keys do not collide: a reader or writer registration     *)
(* for an empty slot (f, t) succeeds whatever the other slots hold         *)
(* (the other role of (f, t), other owner types of f, an identifier of     *)
(* f), returns the function unchanged, makes get_reader / get_writer       *)
(* return it for (f, t), and leaves every other slot as it was.            *)
(***************************************************************************)
C8_RolesAndKeysIndependent ==
    /\ \A name \in Roles, fmt \in Formats, cls \in Classes :
         /\ last.op = "register_" \o name /\ last.fmt = fmt /\ last.cls = cls
         /\ SlotBefore(name, fmt, cls) = None
         => /\ last.exc = None
            /\ last.ret = last.func
            /\ Slot(name, fmt, cls) = last.func
            /\ \A name2 \in Roles, fmt2 \in Formats, cls2 \in Classes :
                 <<name2, fmt2, cls2>> # <<name, fmt, cls>> =>
                   Slot(name2, fmt2, cls2) = SlotBefore(name2, fmt2, cls2)
            /\ _identifiers = before.ids
    /\ last.op = "register_identifier" => _formats = before.formats

\* a writer was registered for a pair that has a reader, under a format that
\* also has an identifier
C8_Witness ==
    /\ last.op = "register_writer" /\ last.exc = None
    /\ Slot("writer", last.fmt, last.cls) = last.func
    /\ Slot("reader", last.fmt, last.cls) \notin {None, last.func}
    /\ get_identifier(last.fmt) # None

(***************************************************************************)
(* C9.  guess_format: if exactly one applicable identifier claims the file *)
(* its format is returned; if none does the call fails with                *)
(* FormatIdentificationError; if two or more do it fails with              *)
(* FormatIdentificationError naming all of their formats.                  *)
(***************************************************************************)
C9_GuessDecisionRule ==
    last.op = "guess_format" =>
      LET matching == Matching(last.cls)
      IN /\ Cardinality(matching) = 1 =>
              last.exc = None /\ last.ret \in matching
         /\ Cardinality(matching) = 0 =>
              /\ last.exc = "FormatIdentificationError"
              /\ last.ret = None /\ last.lst = <<>>
         /\ Cardinality(matching) >= 2 =>
              /\ last.exc = "FormatIdentificationError"
              /\ last.ret = None
              /\ Range(last.lst) = matching /\ Len(last.lst) = Cardinality(matching)

\* two identifiers claimed the file
C9_Witness ==
    /\ last.op = "guess_format"
    /\ Cardinality(Matching(last.cls)) >= 2
    /\ last.exc = "FormatIdentificationError"

(***************************************************************************)
(* C10.  Eager read from a path, with a format and a class that have a     *)
(* reader registered: that reader and no other function is invoked, once,  *)
(* on the open stream; when it returns, read returns its result and the    *)
(* stream has been closed once.                                            *)
(***************************************************************************)
C10_EagerRead ==
    /\ last.op = "read" /\ last.fmt # None /\ last.cls # None
    /\ fh.is_own
    /\ Slot("reader", last.fmt, last.cls) # None
    => /\ Len(calls) = 1
       /\ calls[1].role = "reader"
       /\ calls[1].func = Slot("reader", last.fmt, last.cls)
       /\ calls[1].open
       /\ last.exc \in {None, "Exception"}
       /\ last.exc = None =>
            /\ last.ret = ResultOf(Slot("reader", last.fmt, last.cls))
            /\ ~fh.file.open /\ fh.file.closes = 1

\* the reader of (fmt, cls) was called and returned, with another reader
\* registered beside it
C10_Witness ==
    /\ last.op = "read" /\ last.fmt # None /\ last.cls # None
    /\ fh.is_own /\ last.exc = None
    /\ last.ret = ResultOf(Slot("reader", last.fmt, last.cls))
    /\ \E fmt \in Formats, cls \in Classes :
         /\ <<fmt, cls>> # <<last.fmt, last.cls>>
         /\ Slot("reader", fmt, cls) # None

C12_ListExact ==
    last.op \in {"list_reader", "list_writer"} =>
      LET name == IF last.op = "list_reader" THEN "reader" ELSE "writer"
          bound == {fmt \in Formats : Slot(name, fmt, last.cls) # None}
      IN /\ Range(last.lst) = bound
         /\ Len(last.lst) = Cardinality(bound)

\* a format was listed, and another was not, which has for the class only a
\* function of the other role
C12_Witness ==
    /\ last.op \in {"list_reader", "list_writer"}
    /\ Len(last.lst) = 1
    /\ \E fmt \in Formats \ Range(last.lst) :
         \E name \in Roles : Slot(name, fmt, last.cls) # None

(***************************************************************************)
(* C13.  read with neither a format nor a class to read into raises        *)
(* ValueError, and that is all it does: no file is opened, taken, moved or *)
(* closed, no identifier and no reader is called, no generator is made.   *)
(***************************************************************************)
C13_ReadNeedsFormatOrInto ==
    last.op = "read" /\ last.fmt = None /\ last.cls = None =>
      /\ last.exc = "ValueError"
      /\ fh = NoFile
      /\ calls = <<>>
      /\ gen = NoGen
      /\ RegistryUnchanged

\* such a read, made when an identifier that claims any file and a streaming
\* reader for its format are registered
C13_Witness ==
    /\ last.op = "read" /\ last.fmt = None /\ last.cls = None
    /\ last.exc = "ValueError"
    /\ \E fmt \in Matching(None) : Slot("reader", fmt, None) # None

(***************************************************************************)
(* C14.  write without a format, and write with a format but without a     *)
(* destination, raise ValueError and do nothing else: no file is opened or *)
(* taken, no writer is called and the registry is as it was.               *)
(***************************************************************************)
C14_WriteNeedsFormatAndDestination ==
    last.op = "write" /\ (last.fmt = None \/ last.to = None) =>
      /\ last.exc = "ValueError"
      /\ fh = NoFile
      /\ calls = <<>>
      /\ RegistryUnchanged

\* write with a format and no destination, when a writer is registered for
\* the format and the class of the object
C14_Witness ==
    /\ last.op = "write" /\ last.fmt # None /\ last.to = None
    /\ last.exc = "ValueError"
    /\ Slot("writer", last.fmt, last.cls) # None

(***************************************************************************)
(* C15.  Every identifier guess_format calls is handed the open file at    *)
(* offset 0, wherever the offset was when guess_format was called and      *)
(* wherever the identifiers called before it left it; and when             *)
(* guess_format returns a format or raises FormatIdentificationError the   *)
(* offset is 0.  The same holds of the identifiers called by a read that   *)
(* guesses the format.                                                     *)
(***************************************************************************)
C15_IdentifiersStartAtZero ==
    /\ \A i \in 1..Len(calls) :
         calls[i].role = "identifier" => calls[i].pos = 0 /\ calls[i].open
    /\ last.op = "guess_format" =>
         /\ last.exc \in {None, "FormatIdentificationError"}
         /\ fh.used /\ fh.file.pos = 0
         /\ \A i \in 1..Len(calls) : calls[i].role = "identifier"

\* guess_format on a file object the caller had read to offset MaxPos: two
\* identifiers were called, each of which reads to the end of the file
C15_Witness ==
    /\ last.op = "guess_format" /\ fh.used /\ ~fh.is_own
    /\ Len(calls) >= 2
    /\ \A i \in 1..Len(calls) : OffsetAfter(calls[i].func, calls[i].pos) > 0
    /\ fh.file.pos = 0 /\ fh.file.open

(***************************************************************************)
(* C16.  guess_format(fp, cls) with a class calls the identifiers of the   *)
(* formats that have a reader or a writer registered for cls, and only     *)
(* those: the identifier of a format with nothing registered for cls is    *)
(* not called, and that format is neither returned nor named among the     *)
(* ambiguous ones, even when its identifier would claim the file.  Without *)
(* a class every registered identifier is called.  A read that guesses the *)
(* format calls the same identifiers.                                      *)
(***************************************************************************)
C16_GuessInvokesApplicable ==
    /\ last.op = "guess_format" =>
         /\ IdentifiersCalled = {get_identifier(fmt) : fmt \in Applicable(last.cls)}
         /\ last.cls = None => IdentifiersCalled = {_identifiers[i].val : i \in 1..Len(_identifiers)}
         /\ last.ret # None => last.ret \in Applicable(last.cls)
         /\ Range(last.lst) \subseteq Applicable(last.cls)
    /\ last.op = "read" /\ last.fmt = None /\ last.cls # None =>
         IdentifiersCalled = {get_identifier(fmt) : fmt \in Applicable(last.cls)}

\* guess_format with a class called an identifier and passed over another,
\* which claims any file and whose format has nothing registered for the class
C16_Witness ==
    /\ last.op = "guess_format" /\ last.cls # None
    /\ IdentifiersCalled # {}
    /\ \E fmt \in Formats \ Applicable(last.cls) :
         /\ get_identifier(fmt) # None
         /\ Claims(get_identifier(fmt))
         /\ get_identifier(fmt) \notin IdentifiersCalled

(***************************************************************************)
(* C17.  guess_format calls each applicable identifier once, also after    *)
(* one has claimed the file, and its outcome is decided by which formats   *)
(* are registered with what, not by the order they were registered in: the *)
(* format returned, or else FormatIdentificationError, and the set of      *)
(* formats whose identifiers claimed the file, are those that the registry *)
(* read as a mapping gives.                                                *)
(***************************************************************************)
C17_ExhaustiveOrderFree ==
    last.op = "guess_format" =>
      LET applicable == Applicable(last.cls)
          matching == Matching(last.cls)
      IN /\ Len(calls) = Cardinality(applicable)
         /\ \A fmt \in applicable :
              Cardinality({i \in 1..Len(calls) : calls[i].func = get_identifier(fmt)}) = 1
         /\ last.ret = (IF Cardinality(matching) = 1 THEN CHOOSE fmt \in matching : TRUE
                        ELSE None)
         /\ last.exc = (IF Cardinality(matching) = 1 THEN None
                        ELSE "FormatIdentificationError")
         /\ Range(last.lst) = matching

\* the identifier of fastq was registered before that of fasta; it claimed
\* the file and the identifier of fasta was called after it, and did not
C17_Witness ==
    /\ last.op = "guess_format"
    /\ Keys(_identifiers) = <<"fastq", "fasta">>
    /\ Len(calls) = 2
    /\ Claims(calls[1].func) /\ ~Claims(calls[2].func)
    /\ last.ret = "fastq"

(***************************************************************************)
(* C18.  read of a format (given, or guessed for the class) into a class,  *)
(* or into None for a generator, raises FileFormatError and calls no       *)
(* reader whenever no reader is registered for just that format and class: *)
(* a writer registered for them, or a reader of the format registered for  *)
(* another class, does not serve.  It raises FileFormatError in no other   *)
(* case.                                                                   *)
(***************************************************************************)
C18_NoSuchReader ==
    last.op = "read" /\ (last.fmt # None \/ last.cls # None) =>
      /\ FormatRead # None /\ Slot("reader", FormatRead, last.cls) = None =>
           /\ last.exc = "FileFormatError"
           /\ \A i \in 1..Len(calls) : calls[i].role # "reader"
           /\ gen = NoGen
      /\ last.exc = "FileFormatError" =>
           FormatRead # None /\ Slot("reader", FormatRead, last.cls) = None

\* read into a class guessed the format, for which the class has a writer
\* and no reader, while another reader of the format is registered
C18_Witness ==
    /\ last.op = "read" /\ last.fmt = None /\ last.cls # None
    /\ last.exc = "FileFormatError"
    /\ IdentifiersCalled # {}
    /\ Slot("writer", FormatRead, last.cls) # None
    /\ \E cls \in Classes : Slot("reader", FormatRead, cls) # None

C20_StreamingSplit ==
    /\ last.op = "read" /\ last.cls = None /\ last.fmt # None =>
         /\ last.exc \in {None, "FileFormatError"}
         /\ last.exc = None <=> Slot("reader", last.fmt, None) # None
         /\ calls = <<>>
         /\ last.exc = None =>
              /\ gen.state = "created" /\ gen.reader_calls = 0
              /\ gen.reader = Slot("reader", last.fmt, None)
              /\ gen.file.open /\ gen.file.closes = 0
         /\ last.exc # None => gen = NoGen
    /\ last.op = "next" =>
         /\ last.exc \in {None, "StopIteration", "Exception"}
         /\ \A i \in 1..Len(calls) : calls[i].func = gen.reader /\ calls[i].open
         /\ Len(calls) <= 1
         /\ calls # <<>> => gen.reader_calls = 1
    /\ gen.reader_calls <= 1
    /\ gen.state = "created" => gen.reader_calls = 0
    /\ gen.state = "suspended" => gen.reader_calls = 1

\* the second next() on a generator: the reader was called by the first and
\* is not called now
C20_Witness ==
    /\ last.op = "next" /\ last.exc = None
    /\ gen.yielded = 2 /\ gen.reader_calls = 1
    /\ calls = <<>>

====
